---- MODULE Spec2Model ----
(***************************************************************************)
(* Model of the connection / session and transport layer of awp5           *)
(* (awp5/base/connection.py, awp5/base/helpers.py, awp5/base/config.py).   *)
(*                                                                         *)
(* Python values are tagged records so that values of different Python     *)
(* types never compare equal (b'' == '' is False in Python 3).  Text that  *)
(* the code only formats or concatenates is a TLA+ string; text that the   *)
(* code strips, splits or compares character-wise (the subprocess' stdout) *)
(* is a sequence of one-character strings.  A Connection object is its     *)
(* index in conns; the Python reference None to a Connection is 0.         *)
(***************************************************************************)
EXTENDS Integers, Sequences, FiniteSets, TLC

(* ------------------------------ bounds -------------------------------- *)
MaxConns == 2
MaxClock == 1
MaxMutations == 2
MaxLen == 2
NThreads == 2

(* --------------------------- Python values ---------------------------- *)
PyNone == [type |-> "NoneType"]
PyStr(s) == [type |-> "str", val |-> s]
PyInt(n) == [type |-> "int", val |-> n]
PyBytes(s) == [type |-> "bytes", val |-> s]
PyBool(b) == [type |-> "bool", val |-> b]
PyList(s) == [type |-> "list", val |-> s]
PyExc(name) == [type |-> "exception", val |-> name]

\* Python's ==: values of different types are unequal
PyEq(a, b) == a.type = b.type /\ (a.type = "NoneType" \/ a.val = b.val)

\* Python's truth value of an object
Truthy(v) ==
    CASE v.type = "NoneType" -> FALSE
      [] v.type = "str" -> Len(v.val) # 0
      [] v.type = "bytes" -> Len(v.val) # 0
      [] v.type = "int" -> v.val # 0
      [] v.type = "bool" -> v.val
      [] v.type = "list" -> Len(v.val) # 0
      [] OTHER -> TRUE

\* "{}".format(v)
Format(v) ==
    CASE v.type = "str" -> v.val
      [] v.type = "int" -> ToString(v.val)
      [] v.type = "bool" -> IF v.val THEN "True" ELSE "False"
      [] OTHER -> "None"

NoConn == 0

(* ------------------------------ helpers.py ---------------------------- *)
defaultIfNotSet(val, default) == IF Truthy(val) THEN val ELSE default

\* a strings that drops falsy entries at the top level only
RECURSIVE strings_keep_nested_falsy(_)
strings_keep_nested_falsy(input_list) ==
    IF input_list = <<>> THEN <<>>
    ELSE LET entry == Head(input_list)
             rest == strings_keep_nested_falsy(Tail(input_list))
         IN  IF Truthy(entry)
             THEN IF entry.type # "list"
                  THEN <<Format(entry)>> \o rest
                  ELSE [i \in 1..Len(entry.val) |-> Format(entry.val[i])]
                           \o rest
             ELSE rest

RECURSIVE strings(_)
strings(input_list) ==
    IF input_list = <<>> THEN <<>>
    ELSE LET entry == Head(input_list)
             rest == strings(Tail(input_list))
         IN  IF Truthy(entry)
             THEN IF entry.type # "list"
                  THEN <<Format(entry)>> \o rest
                  ELSE strings(entry.val) \o rest
             ELSE rest

RECURSIVE JoinSpace(_)
JoinSpace(toks) ==
    IF Len(toks) = 1 THEN toks[1]
    ELSE toks[1] \o <<" ">> \o JoinSpace(Tail(toks))

\* a singlevalue that answers a list of several tokens with its first
singlevalue_first_only(input_list) ==
    IF Len(input_list) = 0 THEN <<>>
    ELSE input_list[1]

singlevalue(input_list) ==
    IF Len(input_list) = 0 THEN <<>>
    ELSE IF Len(input_list) = 1 THEN input_list[1]
    ELSE JoinSpace(input_list)

(* ------------------------------ config.py ----------------------------- *)
Platforms == {"win32", "linux"}

config_p5_user == PyStr("Administrator")
config_p5_pass == PyStr("password")
config_p5_ip == PyStr("127.0.0.1")
config_p5_port_nr == PyInt(8000)
config_p5_path(plat) ==
    IF plat = "win32"
    THEN PyStr("C:\\Program Files\\ARCHIWARE\\Data_Lifecycle_Management_Suite")
    ELSE PyStr("/usr/local/aw")

(* ---------------------------- text of stdout -------------------------- *)
IsSpace(ch) == ch = " "

RECURSIVE LStrip(_)
LStrip(s) == IF s # <<>> /\ IsSpace(Head(s)) THEN LStrip(Tail(s)) ELSE s

RECURSIVE RStrip(_)
RStrip(s) ==
    IF s # <<>> /\ IsSpace(s[Len(s)]) THEN RStrip(SubSeq(s, 1, Len(s) - 1))
    ELSE s

\* bytes.strip() / str.strip()
Strip(s) == RStrip(LStrip(s))

\* str.split(' '): cut at every single space; never returns an empty list
RECURSIVE SplitAcc(_, _)
SplitAcc(s, cur) ==
    IF s = <<>> THEN <<cur>>
    ELSE IF Head(s) = " " THEN <<cur>> \o SplitAcc(Tail(s), <<>>)
    ELSE SplitAcc(Tail(s), Append(cur, Head(s)))

Split(s) == SplitAcc(s, <<>>)

\* bytes.decode('utf-8') of ASCII output: the same characters, as a str
Decode(b) == PyStr(b.val)

(* ------------------------------- state -------------------------------- *)
VARIABLES
    platform,               \* sys.platform of the running process
    now,                    \* the reading time.time() returns
    conns,                  \* the Connection objects, in construction order
    default_connection,     \* Connection.default_connection
    last_connection,        \* Connection.last_connection
    prefer_last_connection, \* Connection.prefer_last_connection
    nmut,                   \* attribute assignments made by the caller so far
    threads,                \* the call each thread is in the middle of
    result                  \* outcome of the operation completed last

vars == <<platform, now, conns, default_connection, last_connection,
          prefer_last_connection, nmut, threads, result>>

ConnIds == 1..Len(conns)

\* an operation's outcome: what it returned or raised, the subprocesses it
\* spawned (their argument vectors) and how the main subprocess ended
Outcome(op, self, args, kind, value, spawned, proc) ==
    [op |-> op, self |-> self, args |-> args, kind |-> kind, value |-> value,
     spawned |-> spawned, proc |-> proc]

\* no subprocess was waited for
NoProc == [duration |-> 0, rc |-> 0, out |-> <<>>]

\* a thread that is not inside exec_nsdchat
Idle ==
    [pc |-> "idle", explicit |-> NoConn, pref |-> FALSE, target |-> NoConn,
     argv |-> <<>>, reply |-> <<>>]

(* --------------------------- connection.py ---------------------------- *)
\* hashlib.sha224(text).hexdigest(): a symbolic digest, one per text
sha224_hexdigest(text) == "sha224(" \o text \o ")"

\* os.path.join(path, 'bin', name)
path_join(plat, path, name) ==
    IF plat = "win32" THEN path \o "\\bin\\" \o name
    ELSE path \o "/bin/" \o name

ConnectionBase_init(a) ==
    [p5_user |-> defaultIfNotSet(a.p5_user, config_p5_user),
     p5_pass |-> defaultIfNotSet(a.p5_pass, config_p5_pass),
     p5_ip |-> defaultIfNotSet(a.p5_ip, a.p5_ip),
     p5_port_nr |-> defaultIfNotSet(a.p5_port_nr, config_p5_port_nr),
     p5_path |-> defaultIfNotSet(a.p5_path, config_p5_path(platform))]

\* the session id __init__ ends up with
init_session_id(sessionid, t) ==
    LET session_id == PyNone
    IN  IF ~Truthy(session_id)
        THEN PyStr("awp5" \o "_" \o sha224_hexdigest(ToString(t)))
        ELSE sessionid

\* the Connection object __init__ builds from its arguments
Connection_init(a) ==
    LET base == ConnectionBase_init(
                    [p5_user |-> defaultIfNotSet(a.p5_user, config_p5_user),
                     p5_pass |-> defaultIfNotSet(a.p5_pass, config_p5_pass),
                     p5_ip |-> defaultIfNotSet(a.p5_ip, config_p5_ip),
                     p5_port_nr |-> defaultIfNotSet(a.p5_port_nr,
                                                    config_p5_port_nr),
                     p5_path |-> defaultIfNotSet(a.p5_path,
                                                 config_p5_path(platform))])
    IN  [p5_user |-> base.p5_user,
         p5_pass |-> base.p5_pass,
         p5_ip |-> base.p5_ip,
         p5_port_nr |-> base.p5_port_nr,
         p5_path |-> base.p5_path,
         connection_string |-> PyNone,
         session_id |-> init_session_id(a.sessionid, now),
         nsdchat |-> IF platform = "win32"
                     THEN path_join(platform, base.p5_path.val, "nsdchat.exe")
                     ELSE path_join(platform, base.p5_path.val, "nsdchat")]

\* a template that puts the password before the user
string_template_swapped(user, password, sessionid, hostip, port) ==
    "awsock:/" \o Format(password) \o ":" \o Format(user) \o ":"
        \o Format(sessionid) \o "@" \o Format(hostip) \o ":" \o Format(port)

\* Connection.string_template.format(...)
string_template(user, password, sessionid, hostip, port) ==
    "awsock:/" \o Format(user) \o ":" \o Format(password) \o ":"
        \o Format(sessionid) \o "@" \o Format(hostip) \o ":" \o Format(port)

\* a getConnectionString that formats the string on every call
connection_string_uncached(c) ==
    PyStr("awsock:/" \o Format(c.p5_user) \o ":" \o Format(c.p5_pass) \o ":"
              \o Format(c.session_id) \o "@" \o Format(c.p5_ip) \o ":"
              \o ToString(c.p5_port_nr.val + 1001))

\* the string getConnectionString returns for connection object c
connection_string_of(c) ==
    IF ~Truthy(c.connection_string)
    THEN PyStr(string_template(c.p5_user, c.p5_pass, c.session_id, c.p5_ip,
                               PyInt(c.p5_port_nr.val + 1001)))
    ELSE c.connection_string

\* a resolution that looks at the default connection first
Connection_get_default_first ==
    IF default_connection # NoConn THEN default_connection
    ELSE IF prefer_last_connection /\ last_connection # NoConn
    THEN last_connection
    ELSE NoConn

\* a resolution that takes the last used connection whatever the preference
Connection_get_last_always ==
    IF last_connection # NoConn THEN last_connection
    ELSE IF default_connection # NoConn THEN default_connection
    ELSE NoConn

\* Connection.get(): the connection, or NoConn when it raises
Connection_get ==
    IF prefer_last_connection /\ last_connection # NoConn
    THEN last_connection
    ELSE IF default_connection # NoConn THEN default_connection
    ELSE NoConn

(* ------------------------------ inputs -------------------------------- *)
\* values a caller passes to the constructor: unset, or set
UserArgs == {PyNone, PyStr("bob")}
PassArgs == {PyNone, PyStr(""), PyStr("secret")}
IpArgs == {PyNone, PyStr("10.0.0.5")}
PortArgs == {PyNone, PyInt(0), PyInt(9000)}
PathArgs == {PyNone}
SessionArgs == {PyNone, PyStr("mysession")}

CtorArgs ==
    [p5_user : UserArgs, p5_pass : PassArgs, p5_ip : IpArgs,
     p5_port_nr : PortArgs, p5_path : PathArgs, sessionid : SessionArgs]

\* constructor calls that set at most one argument, or all of them
Supplied(a) ==
    {f \in {"p5_user", "p5_pass", "p5_ip", "p5_port_nr", "p5_path",
             "sessionid"} : a[f] # PyNone}

SomeCtorArgs ==
    {a \in CtorArgs :
        \/ Cardinality(Supplied(a)) <= 1
        \/ /\ Cardinality(Supplied(a)) = 5
           /\ \A f \in Supplied(a) : Truthy(a[f])}

\* the constructor call Connection(): everything from the configuration
DefaultCtorArgs ==
    {a \in CtorArgs :
        /\ a.p5_user = PyNone /\ a.p5_pass = PyNone /\ a.p5_ip = PyNone
        /\ a.p5_port_nr = PyNone /\ a.sessionid = PyNone}

(* ------------------------------ actions ------------------------------- *)
InitOn(plat) ==
    /\ platform = plat
    /\ now = 0
    /\ conns = <<>>
    /\ default_connection = NoConn
    /\ last_connection = NoConn
    /\ prefer_last_connection = FALSE
    /\ nmut = 0
    /\ threads = [t \in 1..NThreads |-> Idle]
    /\ result = Outcome("none", NoConn, PyNone, "return", PyNone, <<>>, NoProc)

Init == \E plat \in Platforms : InitOn(plat)

\* time passes
Tick ==
    /\ now < MaxClock
    /\ now' = now + 1
    /\ UNCHANGED <<platform, conns, default_connection, last_connection,
                   prefer_last_connection, nmut, result, threads>>

\* a constructor that registers every new connection as the default
Construct_overwrite_default(a) ==
    /\ Len(conns) < MaxConns
    /\ conns' = Append(conns, Connection_init(a))
    /\ default_connection' = Len(conns) + 1
    /\ result' = Outcome("Connection", Len(conns) + 1, a, "return", PyNone,
                         <<>>, NoProc)
    /\ UNCHANGED <<platform, now, last_connection, prefer_last_connection,
                   nmut, threads>>

\* Connection(p5_user, p5_pass, p5_ip, p5_port_nr, p5_path, sessionid)
Construct(a) ==
    /\ Len(conns) < MaxConns
    /\ conns' = Append(conns, Connection_init(a))
    /\ default_connection' =
           IF default_connection = NoConn THEN Len(conns) + 1
           ELSE default_connection
    /\ result' = Outcome("Connection", Len(conns) + 1, a, "return", PyNone,
                         <<>>, NoProc)
    /\ UNCHANGED <<platform, now, last_connection, prefer_last_connection,
                   nmut, threads>>

\* Connection.prefer_last_connection = b
SetPreferLast(b) ==
    /\ prefer_last_connection # b
    /\ prefer_last_connection' = b
    /\ result' = Outcome("prefer_last_connection", NoConn, PyBool(b), "return",
                         PyNone, <<>>, NoProc)
    /\ UNCHANGED <<platform, now, conns, default_connection, last_connection,
                   nmut, threads>>

\* a Connection.get() that answers None when there is no connection
Get_silent ==
    /\ result' = IF Connection_get # NoConn
                 THEN Outcome("get", Connection_get, PyNone, "return",
                              PyNone, <<>>, NoProc)
                 ELSE Outcome("get", NoConn, PyNone, "return",
                              PyNone, <<>>, NoProc)
    /\ UNCHANGED <<platform, now, conns, default_connection, last_connection,
                   prefer_last_connection, nmut, threads>>

\* Connection.get()
Get ==
    /\ result' = IF Connection_get # NoConn
                 THEN Outcome("get", Connection_get, PyNone, "return",
                              PyNone, <<>>, NoProc)
                 ELSE Outcome("get", NoConn, PyNone, "raise",
                              PyExc("AssertionError"), <<>>, NoProc)
    /\ UNCHANGED <<platform, now, conns, default_connection, last_connection,
                   prefer_last_connection, nmut, threads>>

\* conns[self].getConnectionString()
GetConnectionString(self) ==
    /\ self \in ConnIds
    /\ conns' = [conns EXCEPT ![self].connection_string =
                                  connection_string_of(conns[self])]
    /\ result' = Outcome("getConnectionString", self, PyNone, "return",
                         connection_string_of(conns[self]), <<>>, NoProc)
    /\ UNCHANGED <<platform, now, default_connection, last_connection,
                   prefer_last_connection, nmut, threads>>

\* the attributes a caller may assign after construction, and the values
MutableFields ==
    {"p5_user", "p5_pass", "p5_ip", "p5_port_nr", "session_id"}

MutationValues(field) ==
    CASE field = "p5_user" -> {PyStr("carol")}
      [] field = "p5_pass" -> {PyStr("rotated")}
      [] field = "p5_ip" -> {PyStr("10.0.0.9")}
      [] field = "p5_port_nr" -> {PyInt(7000)}
      [] field = "session_id" -> {PyStr("other")}

\* conns[self].<field> = v
Mutate(self, field, v) ==
    /\ self \in ConnIds
    /\ nmut < MaxMutations
    /\ conns[self][field] # v
    /\ conns' = [conns EXCEPT ![self][field] = v]
    /\ nmut' = nmut + 1
    /\ result' = Outcome("setattr", self, PyNone, "return", PyNone, <<>>,
                         NoProc)
    /\ UNCHANGED <<platform, now, default_connection, last_connection,
                   prefer_last_connection, threads>>

(* ------------------------- the external process ------------------------ *)
\* what nsdchat may write to stdout: nothing, white space only, a token
Outs == {<<>>, <<" ">>, <<"a">>}

\* a run of a subprocess waited for with the given timeout: one that ends
\* shortly before the timeout with some exit status and stdout, or one that
\* is still running shortly after it
Procs(timeout) ==
    [duration : {timeout - 3}, rc : {0, 1}, out : Outs]
        \cup {[duration |-> timeout + 3, rc |-> 0, out |-> <<>>]}

\* a run of a subprocess waited for without a timeout
ProcsNoTimeout == [duration : {1}, rc : {0, 1}, out : Outs]

\* command token lists callers pass
Cmds == {PyList(<<PyStr("Job"), PyStr("completed"), PyNone>>)}

(* ------------------------------ transport ----------------------------- *)
\* the argument vector geterror runs
geterror_argv(c) ==
    <<c.nsdchat, "-s", Format(c.connection_string), "-c", "geterror">>

\* an nsdchat_call that swallows the timeout and returns None
nsdchat_call_swallow_timeout(c, cmd, timeout, proc) ==
    LET nsdcmd == <<c.nsdchat, "-s", c.connection_string.val, "-c">>
        argv == nsdcmd \o strings(cmd.val)
    IN  IF proc.duration > timeout
        THEN [kind |-> "return", value |-> PyNone,
              spawned |-> <<argv>>, marks_last |-> FALSE]
        ELSE [kind |-> "return",
              value |-> PyList(Split(Strip(Decode(PyBytes(proc.out)).val))),
              spawned |-> <<argv>>, marks_last |-> TRUE]

\* an nsdchat_call that takes every non-zero status for a failure
nsdchat_call_nonzero_fails(c, cmd, timeout, proc) ==
    LET nsdcmd == <<c.nsdchat, "-s", c.connection_string.val, "-c">>
        argv == nsdcmd \o strings(cmd.val)
    IN  IF proc.duration > timeout
        THEN [kind |-> "raise", value |-> PyExc("TimeoutExpired"),
              spawned |-> <<argv>>, marks_last |-> FALSE]
        ELSE IF proc.rc # 0
        THEN [kind |-> "return", value |-> PyNone,
              spawned |-> <<argv, geterror_argv(c)>>, marks_last |-> FALSE]
        ELSE [kind |-> "return",
              value |-> PyList(Split(Strip(Decode(PyBytes(proc.out)).val))),
              spawned |-> <<argv>>, marks_last |-> TRUE]

\* an nsdchat_call that passes the command after -s and the URI after -c
nsdchat_call_flags_swapped(c, cmd, timeout, proc) ==
    LET nsdcmd == <<c.nsdchat, "-c", c.connection_string.val, "-s">>
        argv == nsdcmd \o strings(cmd.val)
    IN  IF proc.duration > timeout
        THEN [kind |-> "raise", value |-> PyExc("TimeoutExpired"),
              spawned |-> <<argv>>, marks_last |-> FALSE]
        ELSE IF proc.rc # 0 /\ PyEq(PyBytes(Strip(proc.out)), PyStr(""))
        THEN [kind |-> "return", value |-> PyNone,
              spawned |-> <<argv, geterror_argv(c)>>, marks_last |-> FALSE]
        ELSE [kind |-> "return",
              value |-> PyList(Split(Strip(Decode(PyBytes(proc.out)).val))),
              spawned |-> <<argv>>, marks_last |-> TRUE]

\* Connection.nsdchat_call(cmd, timeout) on connection object c (whose
\* connection string getConnectionString has just cached), when the
\* subprocess runs as proc: what the call returns or raises, what it spawned
\* and whether it marked the connection as last used
nsdchat_call(c, cmd, timeout, proc) ==
    LET nsdcmd == <<c.nsdchat, "-s", c.connection_string.val, "-c">>
        argv == nsdcmd \o strings(cmd.val)
    IN  IF proc.duration > timeout
        THEN [kind |-> "raise", value |-> PyExc("TimeoutExpired"),
              spawned |-> <<argv>>, marks_last |-> FALSE]
        ELSE IF proc.rc # 0 /\ PyEq(PyBytes(Strip(proc.out)), PyStr(""))
        THEN [kind |-> "return", value |-> PyNone,
              spawned |-> <<argv, geterror_argv(c)>>, marks_last |-> FALSE]
        ELSE [kind |-> "return",
              value |-> PyList(Split(Strip(Decode(PyBytes(proc.out)).val))),
              spawned |-> <<argv>>, marks_last |-> TRUE]

\* conns[self].nsdchat_call(cmd): the default timeout is 10 seconds
NsdchatCall(self, cmd, proc) ==
    /\ self \in ConnIds
    /\ LET c == [conns[self] EXCEPT
                    !.connection_string = connection_string_of(conns[self])]
           r == nsdchat_call(c, cmd, 10, proc)
       IN  /\ conns' = [conns EXCEPT ![self] = c]
           /\ last_connection' =
                  IF r.marks_last THEN self ELSE last_connection
           /\ result' = Outcome("nsdchat_call", self, cmd, r.kind, r.value,
                                r.spawned, proc)
    /\ UNCHANGED <<platform, now, default_connection, prefer_last_connection,
                   nmut, threads>>

\* exec_nsdchat(cmd, p5_connection); p5_connection = NoConn is "not given"
ExecNsdchat(cmd, p5_connection, proc) ==
    /\ p5_connection \in ConnIds \cup {NoConn}
    /\ LET self == IF p5_connection = NoConn THEN Connection_get
                   ELSE p5_connection
       IN  IF self = NoConn
           THEN /\ result' = Outcome("exec_nsdchat", NoConn, cmd, "raise",
                                     PyExc("AssertionError"), <<>>, NoProc)
                /\ UNCHANGED <<conns, last_connection>>
           ELSE LET c == [conns[self] EXCEPT
                             !.connection_string =
                                 connection_string_of(conns[self])]
                    r == nsdchat_call(c, cmd, 10, proc)
                IN  /\ conns' = [conns EXCEPT ![self] = c]
                    /\ last_connection' =
                           IF r.marks_last THEN self ELSE last_connection
                    /\ result' = Outcome("exec_nsdchat", self, cmd, r.kind,
                                         r.value, r.spawned, proc)
    /\ UNCHANGED <<platform, now, default_connection, prefer_last_connection,
                   nmut, threads>>

\* code point of a character
Ord(ch) ==
    CASE ch = " " -> 32 [] ch = "." -> 46 [] ch = "0" -> 48 [] ch = "1" -> 49
      [] ch = "9" -> 57 [] ch = "a" -> 97

\* Python's a >= b on str
RECURSIVE StrGE(_, _)
StrGE(a, b) ==
    IF b = <<>> THEN TRUE
    ELSE IF a = <<>> THEN FALSE
    ELSE IF Ord(Head(a)) # Ord(Head(b)) THEN Ord(Head(a)) > Ord(Head(b))
    ELSE StrGE(Tail(a), Tail(b))

\* version arguments passed to test (as str(version))
Versions == {<<>>, <<"a">>}

\* conns[self].test(version)
Test(self, version, proc) ==
    /\ self \in ConnIds
    /\ LET p5cmd == PyList(<<PyStr("srvinfo"), PyStr("lexxvers")>>)
           c == [conns[self] EXCEPT
                    !.connection_string = connection_string_of(conns[self])]
           r == nsdchat_call(c, p5cmd, 5, proc)
       IN  /\ conns' = [conns EXCEPT ![self] = c]
           /\ last_connection' =
                  IF r.marks_last THEN self ELSE last_connection
           /\ result' =
                  IF r.kind = "raise"
                  THEN Outcome("test", self, PyStr(version), "raise", r.value,
                               r.spawned, proc)
                  ELSE IF r.value = PyNone
                  THEN Outcome("test", self, PyStr(version), "raise",
                               PyExc("TypeError"), r.spawned, proc)
                  ELSE Outcome("test", self, PyStr(version), "return",
                               PyBool(StrGE(singlevalue(r.value.val),
                                            version)),
                               r.spawned, proc)
    /\ UNCHANGED <<platform, now, default_connection, prefer_last_connection,
                   nmut, threads>>

\* conns[self].geterror()
Geterror(self, proc) ==
    /\ self \in ConnIds
    /\ result' =
           IF conns[self].connection_string = PyNone
           THEN Outcome("geterror", self, PyNone, "raise", PyExc("TypeError"),
                        <<>>, NoProc)
           ELSE IF proc.rc # 0
           THEN Outcome("geterror", self, PyNone, "return", PyNone,
                        <<geterror_argv(conns[self])>>, proc)
           ELSE Outcome("geterror", self, PyNone, "return",
                        Decode(PyBytes(proc.out)),
                        <<geterror_argv(conns[self])>>, proc)
    /\ UNCHANGED <<platform, now, conns, default_connection, last_connection,
                   prefer_last_connection, nmut, threads>>

(* --------------------------- resource handles ------------------------- *)
\* some of the classes derived from P5Resource
ResourceClasses == {"Job", "Client"}

\* names of resources, as tokens of a reply
r1 == <<"r", "1">>
r2 == <<"r", "2">>
ResourceNames == {r1, r2}

\* an instance of a class derived from P5Resource
Handle(cls, name, p5_connection) ==
    [type |-> "P5Resource", cls |-> cls, name |-> name,
     p5_connection |-> p5_connection]

\* P5Resource.__init__(name, p5_connection): the handle; its connection is
\* NoConn when Connection.get() raised
P5Resource_init(cls, name, p5_connection) ==
    Handle(cls, name,
           IF p5_connection = NoConn THEN Connection_get ELSE p5_connection)

\* an equality that looks at the names only
P5Resource_eq_by_name(self, other) ==
    IF other.type = "P5Resource" /\ other.cls = self.cls
    THEN self.name = other.name
    ELSE IF other.type = "str" THEN self.name = other.val
    ELSE FALSE

\* P5Resource.__eq__(self, other); every class derives from P5Resource
\* directly, so isinstance(other, type(self)) holds for the same class only
P5Resource_eq(self, other) ==
    IF other.type = "P5Resource" /\ other.cls = self.cls
    THEN self.name = other.name /\ self.p5_connection = other.p5_connection
    ELSE IF other.type = "str" THEN self.name = other.val
    ELSE FALSE

\* P5Resource.__ne__(self, other): what it returns or raises
P5Resource_ne(self, other) ==
    IF other.type = "P5Resource" /\ other.cls = self.cls
    THEN [kind |-> "return",
          value |-> PyBool(\/ self.name # other.name
                           \/ self.p5_connection # other.p5_connection)]
    ELSE IF other.type = "str"
    THEN [kind |-> "return", value |-> PyBool(self.name # other.val)]
    ELSE [kind |-> "raise", value |-> PyExc("TypeError")]

\* the tokens that stand for no resource
empty_token == <<"<", "e", "m", "p", "t", "y", ">">>
unknown_token == <<"u", "n", "k", "n", "o", "w", "n">>

\* a resourcelist that stops at the first token that stands for no resource
RECURSIVE resourcelist_until_sentinel(_, _, _)
resourcelist_until_sentinel(input_list, resource_class, p5connection) ==
    IF input_list = <<>> THEN <<>>
    ELSE LET entry == Head(input_list)
         IN  IF entry # empty_token /\ entry # unknown_token
             THEN <<P5Resource_init(resource_class, entry, p5connection)>>
                      \o resourcelist_until_sentinel(Tail(input_list),
                                                     resource_class,
                                                     p5connection)
             ELSE <<>>

\* resourcelist(input_list, resource_class, p5connection): the handles it
\* constructs, in order
RECURSIVE resourcelist(_, _, _)
resourcelist(input_list, resource_class, p5connection) ==
    IF input_list = <<>> THEN <<>>
    ELSE LET entry == Head(input_list)
             rest == resourcelist(Tail(input_list), resource_class,
                                  p5connection)
         IN  IF entry # empty_token /\ entry # unknown_token
             THEN <<P5Resource_init(resource_class, entry, p5connection)>>
                      \o rest
             ELSE rest

\* an onereturnvalue that answers a list of several objects with its first
onereturnvalue_first_of_objects(returned) ==
    IF Truthy(returned)
    THEN LET no_of_values == Len(returned.val)
         IN  IF no_of_values = 0 THEN PyStr(<<>>)
             ELSE IF no_of_values = 1 THEN returned.val[1]
             ELSE IF \A i \in 1..no_of_values : returned.val[i].type = "str"
             THEN PyStr(JoinSpace([i \in 1..no_of_values |->
                                       returned.val[i].val]))
             ELSE returned.val[1]
    ELSE returned

\* an onereturnvalue that answers every falsy value with the empty string
onereturnvalue_empty_string_for_falsy(returned) ==
    IF Truthy(returned)
    THEN LET no_of_values == Len(returned.val)
         IN  IF no_of_values = 1 THEN returned.val[1]
             ELSE IF \A i \in 1..no_of_values : returned.val[i].type = "str"
             THEN PyStr(JoinSpace([i \in 1..no_of_values |->
                                       returned.val[i].val]))
             ELSE returned
    ELSE PyStr(<<>>)

\* what a function wrapped in onereturnvalue returns when the function
\* itself returned the value returned
onereturnvalue(returned) ==
    IF Truthy(returned)
    THEN LET no_of_values == Len(returned.val)
         IN  IF no_of_values = 0 THEN PyStr(<<>>)
             ELSE IF no_of_values = 1 THEN returned.val[1]
             ELSE IF \A i \in 1..no_of_values : returned.val[i].type = "str"
             THEN PyStr(JoinSpace([i \in 1..no_of_values |->
                                       returned.val[i].val]))
             ELSE returned
    ELSE returned

\* resource_class(name, p5_connection), NoConn for a connection not given
NewResource(resource_class, name, p5_connection) ==
    /\ p5_connection \in ConnIds \cup {NoConn}
    /\ LET h == P5Resource_init(resource_class, name, p5_connection)
       IN  result' =
               IF h.p5_connection = NoConn
               THEN Outcome("P5Resource", NoConn,
                            <<resource_class, name, p5_connection>>, "raise",
                            PyExc("AssertionError"), <<>>, NoProc)
               ELSE Outcome("P5Resource", h.p5_connection,
                            <<resource_class, name, p5_connection>>,
                            "return", h, <<>>, NoProc)
    /\ UNCHANGED <<platform, now, conns, default_connection, last_connection,
                   prefer_last_connection, nmut, threads>>

\* resourcelist(input_list, resource_class, p5connection)
Resourcelist(input_list, resource_class, p5connection) ==
    /\ p5connection \in ConnIds \cup {NoConn}
    /\ LET hs == resourcelist(input_list, resource_class, p5connection)
       IN  result' =
               IF \E i \in 1..Len(hs) : hs[i].p5_connection = NoConn
               THEN Outcome("resourcelist", NoConn,
                            <<input_list, resource_class, p5connection>>,
                            "raise", PyExc("AssertionError"), <<>>, NoProc)
               ELSE Outcome("resourcelist", NoConn,
                            <<input_list, resource_class, p5connection>>,
                            "return", PyList(hs), <<>>, NoProc)
    /\ UNCHANGED <<platform, now, conns, default_connection, last_connection,
                   prefer_last_connection, nmut, threads>>

\* self == other for a handle self
Eq(self, other) ==
    /\ self.p5_connection \in ConnIds
    /\ other.type = "P5Resource" => other.p5_connection \in ConnIds
    /\ result' = Outcome("__eq__", NoConn, <<self, other>>, "return",
                         PyBool(P5Resource_eq(self, other)), <<>>, NoProc)
    /\ UNCHANGED <<platform, now, conns, default_connection, last_connection,
                   prefer_last_connection, nmut, threads>>

\* self != other for a handle self
Ne(self, other) ==
    /\ self.p5_connection \in ConnIds
    /\ other.type = "P5Resource" => other.p5_connection \in ConnIds
    /\ result' = Outcome("__ne__", NoConn, <<self, other>>,
                         P5Resource_ne(self, other).kind,
                         P5Resource_ne(self, other).value, <<>>, NoProc)
    /\ UNCHANGED <<platform, now, conns, default_connection, last_connection,
                   prefer_last_connection, nmut, threads>>

\* a call of a function wrapped in onereturnvalue whose body returns wrapped
OneReturnValue(wrapped) ==
    /\ wrapped.type = "list"
           => \A i \in 1..Len(wrapped.val) :
                  wrapped.val[i].type = "P5Resource"
                      => wrapped.val[i].p5_connection \in ConnIds
    /\ result' = Outcome("onereturnvalue", NoConn, wrapped, "return",
                         onereturnvalue(wrapped), <<>>, NoProc)
    /\ UNCHANGED <<platform, now, conns, default_connection, last_connection,
                   prefer_last_connection, nmut, threads>>

(* --------------------------- specifications --------------------------- *)
\* a script that constructs connections and talks through them
Next ==
    \/ \E a \in DefaultCtorArgs : Construct(a)
    \/ \E b \in BOOLEAN : SetPreferLast(b)
    \/ Get
    \/ \E self \in 1..MaxConns, cmd \in Cmds, proc \in Procs(10) :
           NsdchatCall(self, cmd, proc)
    \/ \E cmd \in Cmds, p5_connection \in 0..MaxConns, proc \in Procs(10) :
           ExecNsdchat(cmd, p5_connection, proc)
    \/ \E self \in 1..MaxConns, version \in Versions, proc \in Procs(5) :
           Test(self, version, proc)
    \/ \E self \in 1..MaxConns, proc \in ProcsNoTimeout :
           Geterror(self, proc)

Spec == InitOn("linux") /\ [][Next]_vars

\* a script that relies on the ambient connection: it asks for it, calls
\* through it and constructs handles on it
NextAmbient ==
    \/ \E a \in DefaultCtorArgs : Construct(a)
    \/ \E b \in BOOLEAN : SetPreferLast(b)
    \/ Get
    \/ \E cmd \in Cmds, p5_connection \in 0..MaxConns, proc \in Procs(10) :
           ExecNsdchat(cmd, p5_connection, proc)
    \/ \E cls \in ResourceClasses, p5_connection \in 0..MaxConns :
           NewResource(cls, r1, p5_connection)

SpecAmbient == InitOn("linux") /\ [][NextAmbient]_vars

\* a script that constructs connections with all kinds of arguments and
\* reads their connection strings
NextCtor ==
    \/ Tick
    \/ \E a \in SomeCtorArgs : Construct(a)
    \/ \E self \in 1..MaxConns : GetConnectionString(self)

SpecCtor == InitOn("linux") /\ [][NextCtor]_vars

\* a script that constructs connections, reads their connection strings and
\* assigns to their attributes
NextURI ==
    \/ \E a \in DefaultCtorArgs : Construct(a)
    \/ \E self \in 1..MaxConns : GetConnectionString(self)
    \/ \E self \in 1..MaxConns, field \in MutableFields :
           \E v \in MutationValues(field) : Mutate(self, field, v)

SpecURI == InitOn("linux") /\ [][NextURI]_vars


(* ------------------------- calls of the helpers ------------------------ *)
\* all sequences over S of length at most n
RECURSIVE SeqsUpTo(_, _)
SeqsUpTo(S, n) ==
    IF n = 0 THEN {<<>>}
    ELSE LET shorter == SeqsUpTo(S, n - 1)
         IN  shorter \cup {Append(q, x) : q \in shorter, x \in S}

\* scalar entries of a command list: None, falsy and truthy str and int
Atoms == {PyNone, PyStr(""), PyInt(0), PyStr("a"), PyInt(5)}

\* lists of scalars, as passed for repeated key/value groups
FlatLists == {PyList(q) : q \in SeqsUpTo(Atoms, MaxLen)}

\* command lists: scalars and lists of scalars side by side, and lists
\* nested deeper
CmdLists ==
    {PyList(<<>>)}
        \cup {PyList(<<x>>) : x \in Atoms \cup FlatLists}
        \cup {PyList(<<x, y>>) : x \in Atoms, y \in Atoms \cup FlatLists}
        \cup {PyList(<<l, y>>) : l \in FlatLists, y \in Atoms}
        \cup {PyList(<<PyStr("a"), l, PyNone, y>>) : l \in FlatLists,
                                                      y \in Atoms}
        \cup {PyList(<<x, PyList(<<y, l>>)>>) : x \in {PyNone, PyInt(5)},
                                                y \in Atoms, l \in FlatLists}

\* tokens of a reply, as split(' ') leaves them: '' among them
Toks == {<<>>, <<"a">>, <<"b", "c">>}

\* token lists of a reply
TokenLists == SeqsUpTo(Toks, MaxLen + 1)

HelperCalls ==
    [fn : {"strings"}, arg : CmdLists]
        \cup [fn : {"singlevalue"}, arg : TokenLists]

\* a run that is about to make one call of a helper function
InitHelpers ==
    /\ platform = "linux"
    /\ now = 0
    /\ conns = <<>>
    /\ default_connection = NoConn
    /\ last_connection = NoConn
    /\ prefer_last_connection = FALSE
    /\ nmut = 0
    /\ threads = [t \in 1..NThreads |-> Idle]
    /\ \E call \in HelperCalls :
           result = Outcome("call", NoConn, call, "return", PyNone, <<>>,
                            NoProc)

\* strings(input_list)
StringsCall ==
    /\ result.op = "call"
    /\ result.args.fn = "strings"
    /\ result' = Outcome("strings", NoConn, result.args.arg, "return",
                         PyList(strings(result.args.arg.val)), <<>>, NoProc)
    /\ UNCHANGED <<platform, now, conns, default_connection, last_connection,
                   prefer_last_connection, nmut, threads>>

\* singlevalue(input_list)
SinglevalueCall ==
    /\ result.op = "call"
    /\ result.args.fn = "singlevalue"
    /\ result' = Outcome("singlevalue", NoConn, result.args.arg, "return",
                         PyStr(singlevalue(result.args.arg)), <<>>, NoProc)
    /\ UNCHANGED <<platform, now, conns, default_connection, last_connection,
                   prefer_last_connection, nmut, threads>>

NextHelpers ==
    \/ StringsCall
    \/ SinglevalueCall

SpecHelpers == InitHelpers /\ [][NextHelpers]_vars

(* ------------------------------ threads ------------------------------- *)
\* constructor calls that name the host or leave it to the configuration
HostCtorArgs ==
    {a \in CtorArgs :
        /\ a.p5_user = PyNone /\ a.p5_pass = PyNone
        /\ a.p5_port_nr = PyNone /\ a.sessionid = PyNone}

\* a subprocess that has not exited when the timeout passes
LateProc == [duration |-> 13, rc |-> 0, out |-> <<>>]

\* how a subprocess may end: in time with output, in time with a failure
\* status and no output, or not before the timeout
LiveProcs ==
    {[duration |-> 7, rc |-> 0, out |-> <<"a">>],
     [duration |-> 7, rc |-> 1, out |-> <<>>],
     LateProc}

\* the command Job.names builds
NamesCmd == PyList(<<PyStr("Job"), PyStr("names")>>)

\* how the subprocess of a thread's call ends: in time or not
ThreadProcs ==
    {[duration |-> 7, rc |-> 0, out |-> <<"a">>],
     [duration |-> 13, rc |-> 0, out |-> <<>>]}

\* thread t enters exec_nsdchat(cmd, p5_connection) and settles the
\* connection to use: the one given, or Connection.get(), whose reads of
\* the class attributes are taken as one step; when that raises, the call
\* is over
ThreadResolve(t, p5_connection) ==
    /\ threads[t].pc = "idle"
    /\ p5_connection \in ConnIds \cup {NoConn}
    /\ LET target == IF p5_connection = NoConn THEN Connection_get
                     ELSE p5_connection
       IN  threads' =
               IF target = NoConn THEN threads
               ELSE [threads EXCEPT
                        ![t] = [pc |-> "resolved",
                                explicit |-> p5_connection,
                                pref |-> /\ p5_connection = NoConn
                                         /\ prefer_last_connection,
                                target |-> target,
                                argv |-> <<>>,
                                reply |-> <<>>]]
    /\ UNCHANGED <<platform, now, conns, default_connection, last_connection,
                   prefer_last_connection, nmut, result>>

\* thread t, inside nsdchat_call, takes the connection string and starts
\* the subprocess
ThreadSpawn(t, cmd) ==
    /\ threads[t].pc = "resolved"
    /\ LET self == threads[t].target
           c == [conns[self] EXCEPT
                    !.connection_string = connection_string_of(conns[self])]
       IN  /\ conns' = [conns EXCEPT ![self] = c]
           /\ threads' =
                  [threads EXCEPT
                      ![t].pc = "running",
                      ![t].argv = nsdchat_call(c, cmd, 10, NoProc).spawned[1]]
    /\ UNCHANGED <<platform, now, default_connection, last_connection,
                   prefer_last_connection, nmut, result>>

\* the subprocess of thread t ends as proc, or the timeout passes first, and
\* nsdchat_call returns or raises; a call that found a soft failure first
\* waits, without a timeout, for the geterror subprocess it started
ThreadFinish(t, cmd, proc) ==
    /\ threads[t].pc \in {"running", "geterror"}
    /\ LET self == threads[t].target
           r == nsdchat_call(conns[self], cmd, 10, proc)
       IN  IF threads[t].pc = "geterror"
           THEN /\ threads' = [threads EXCEPT ![t] = Idle]
                /\ UNCHANGED last_connection
           ELSE /\ last_connection' =
                       IF r.marks_last THEN self ELSE last_connection
                /\ threads' =
                       IF Len(r.spawned) = 2
                       THEN [threads EXCEPT ![t].pc = "geterror"]
                       ELSE [threads EXCEPT ![t] = Idle]
    /\ UNCHANGED <<platform, now, conns, default_connection,
                   prefer_last_connection, nmut, result>>

\* the timeout of thread t's wait on its subprocess passes
ThreadTimeout(t) ==
    /\ threads[t].pc = "running"
    /\ ThreadFinish(t, NamesCmd, LateProc)

\* the subprocess of thread t, which is inside names(as_object=True,
\* p5_connection), ends as proc: exec_nsdchat returns the reply, of which
\* resourcelist is to make handles, or raises
ThreadFinishNames(t, cmd, proc) ==
    /\ threads[t].pc = "running"
    /\ LET self == threads[t].target
           r == nsdchat_call(conns[self], cmd, 10, proc)
       IN  /\ last_connection' =
                  IF r.marks_last THEN self ELSE last_connection
           /\ threads' =
                  IF r.kind = "return" /\ r.value.type = "list"
                  THEN [threads EXCEPT ![t].pc = "listing",
                                       ![t].reply = r.value.val]
                  ELSE [threads EXCEPT ![t] = Idle]
    /\ UNCHANGED <<platform, now, conns, default_connection,
                   prefer_last_connection, nmut, result>>

\* thread t runs resourcelist(result, Job, p5_connection) on the reply and
\* names returns the handles; Connection.get() in the handles' __init__ is
\* taken as one step for all of them
ThreadList(t) ==
    /\ threads[t].pc = "listing"
    /\ result' = Outcome("names", threads[t].target,
                         [p5_connection |-> threads[t].explicit,
                          pref_before |-> threads[t].pref,
                          pref_after |-> prefer_last_connection],
                         "return",
                         PyList(resourcelist(threads[t].reply, "Job",
                                             threads[t].explicit)),
                         <<>>, NoProc)
    /\ threads' = [threads EXCEPT ![t] = Idle]
    /\ UNCHANGED <<platform, now, conns, default_connection, last_connection,
                   prefer_last_connection, nmut>>

\* threads that call exec_nsdchat while connections are constructed and the
\* preference is switched
NextThreads ==
    \/ \E a \in HostCtorArgs : Construct(a)
    \/ \E b \in BOOLEAN : SetPreferLast(b)
    \/ \E t \in 1..NThreads, p5_connection \in 0..MaxConns :
           ThreadResolve(t, p5_connection)
    \/ \E t \in 1..NThreads, cmd \in Cmds : ThreadSpawn(t, cmd)
    \/ \E t \in 1..NThreads, cmd \in Cmds, proc \in ThreadProcs :
           ThreadFinish(t, cmd, proc)

SpecThreads == InitOn("linux") /\ [][NextThreads]_vars

\* threads whose subprocesses exit in time, exit with a failure status or
\* never exit on their own; the clock of communicate(timeout) always advances
NextLive ==
    \/ \E a \in DefaultCtorArgs : Construct(a)
    \/ \E t \in 1..NThreads, p5_connection \in 0..MaxConns :
           ThreadResolve(t, p5_connection)
    \/ \E t \in 1..NThreads : ThreadSpawn(t, NamesCmd)
    \/ \E t \in 1..NThreads, proc \in LiveProcs :
           ThreadFinish(t, NamesCmd, proc)

SpecLive ==
    /\ InitOn("linux")
    /\ [][NextLive]_vars
    /\ \A t \in 1..NThreads : WF_vars(ThreadTimeout(t))

\* the threads that call names: one call and another that completes inside it
NamesThreads == {1, 2}

\* threads that call names(as_object=True) while connections are constructed
\* and the preference is switched
NextNames ==
    \/ \E a \in DefaultCtorArgs : Construct(a)
    \/ \E b \in BOOLEAN : SetPreferLast(b)
    \/ \E t \in NamesThreads, p5_connection \in 0..MaxConns :
           ThreadResolve(t, p5_connection)
    \/ \E t \in NamesThreads : ThreadSpawn(t, NamesCmd)
    \/ \E t \in NamesThreads, proc \in ThreadProcs :
           ThreadFinishNames(t, NamesCmd, proc)
    \/ \E t \in NamesThreads : ThreadList(t)

SpecNames == InitOn("linux") /\ [][NextNames]_vars

(* -------------------------- command lines ----------------------------- *)
\* command lists the functions of the api build: names, a value that is not
\* given, a number, a list of key/value groups
ArgvCmds ==
    Cmds \cup
    {PyList(<<PyStr("Job"), PyStr("names")>>),
     PyList(<<PyStr("Volume"), PyStr("a"), PyStr("setlabel"), PyInt(5)>>),
     PyList(<<PyStr("Client"), PyStr(""),
              PyList(<<PyStr("a"), PyInt(0), PyList(<<PyInt(5), PyNone>>)>>),
              PyStr("b")>>)}

\* a script, on either platform, that constructs connections to some hosts
\* and calls through them
NextArgv ==
    \/ \E a \in HostCtorArgs : Construct(a)
    \/ \E self \in 1..MaxConns, cmd \in ArgvCmds, proc \in Procs(10) :
           NsdchatCall(self, cmd, proc)

SpecArgv == Init /\ [][NextArgv]_vars

(* ------------------------------ job.py -------------------------------- *)
module_name == "Job"

\* the methods of a Job handle that take no argument
JobMethods ==
    {"completion", "describe", "label", "report", "resourcegroup",
     "resourcename", "status", "cancel", "runat", "stop"}

\* names of jobs a caller holds
JobNames == {"10001"}

\* the name the body of a method puts second in its command: cancel refers
\* to job_name, which is bound nowhere
NameInCommand(self, method_name) ==
    IF method_name = "cancel" THEN [kind |-> "raise",
                                    value |-> PyExc("NameError")]
    ELSE [kind |-> "return", value |-> PyStr(self.name)]

\* self.<method_name>() for a Job handle self, wrapped in onereturnvalue
JobMethod(self, method_name, proc) ==
    /\ self.p5_connection \in ConnIds
    /\ LET id == self.p5_connection
           name == NameInCommand(self, method_name)
       IN  IF name.kind = "raise"
           THEN /\ result' = Outcome("Job.method", id, <<self, method_name>>,
                                     "raise", name.value, <<>>, NoProc)
                /\ UNCHANGED <<conns, last_connection>>
           ELSE LET c == [conns[id] EXCEPT
                             !.connection_string =
                                 connection_string_of(conns[id])]
                    cmd == PyList(<<PyStr(module_name), name.value,
                                    PyStr(method_name)>>)
                    r == nsdchat_call(c, cmd, 10, proc)
                    returned ==
                        IF r.kind = "return" /\ r.value.type = "list"
                        THEN PyList([i \in 1..Len(r.value.val) |->
                                         PyStr(r.value.val[i])])
                        ELSE r.value
                IN  /\ conns' = [conns EXCEPT ![id] = c]
                    /\ last_connection' =
                           IF r.marks_last THEN id ELSE last_connection
                    /\ result' =
                           Outcome("Job.method", id, <<self, method_name>>,
                                   r.kind,
                                   IF r.kind = "return"
                                   THEN onereturnvalue(returned)
                                   ELSE r.value,
                                   r.spawned, proc)
    /\ UNCHANGED <<platform, now, default_connection, prefer_last_connection,
                   nmut, threads>>

\* a script that constructs connections and calls the methods of Job
\* handles bound to them
NextJob ==
    \/ \E a \in DefaultCtorArgs : Construct(a)
    \/ \E name \in JobNames, c \in 1..MaxConns, method_name \in JobMethods,
          proc \in Procs(10) :
           JobMethod(Handle("Job", name, c), method_name, proc)

SpecJob == InitOn("linux") /\ [][NextJob]_vars

(* --------------------------- version checks --------------------------- *)
\* dotted version numbers, as the server reports them and callers ask for
VersionNumbers ==
    {<<"9", ".", "0">>, <<"9", ".", "1">>, <<"1", "0", ".", "0">>,
     <<"1", ".", "1", "0">>}

\* runs of 'srvinfo lexxvers': the server reports its version followed by
\* white space, or does not answer in time
VersionProcs ==
    [duration : {2}, rc : {0}, out : {Append(v, " ") : v \in VersionNumbers}]
        \cup {[duration |-> 8, rc |-> 0, out |-> <<>>]}

\* a script that constructs connections and tests the server's version
NextTest ==
    \/ \E a \in DefaultCtorArgs : Construct(a)
    \/ \E self \in 1..MaxConns, version \in VersionNumbers,
          proc \in VersionProcs : Test(self, version, proc)

SpecTest == InitOn("linux") /\ [][NextTest]_vars

(* ------------------------ calls about resources ----------------------- *)
\* token lists of a reply that names resources
ResourceTokenLists ==
    SeqsUpTo(ResourceNames \cup {empty_token, unknown_token}, MaxLen)
        \cup {<<r1, empty_token, r2>>, <<r2, unknown_token, r1>>}

\* handles bound to a connection
Handles ==
    {Handle(cls, name, c) : cls \in ResourceClasses, name \in ResourceNames,
                            c \in 1..MaxConns}

\* what a handle is compared with
Others == Handles \cup {PyStr(r1), PyStr(r2), PyNone}

\* what the body of a wrapped function returns: None, the tokens of the
\* reply, or the handles made of them when as_object is set
WrappedResults ==
    {PyNone}
        \cup {PyList([i \in 1..Len(q) |-> PyStr(q[i])]) :
                  q \in SeqsUpTo(Toks, MaxLen)}
        \cup {PyList(resourcelist(q, cls, 1)) :
                  q \in ResourceTokenLists, cls \in ResourceClasses}

\* a script that constructs connections and handles and compares handles
NextRes ==
    \/ \E a \in DefaultCtorArgs : Construct(a)
    \/ \E cls \in ResourceClasses, name \in ResourceNames,
          c \in 0..MaxConns : NewResource(cls, name, c)
    \/ \E q \in ResourceTokenLists, cls \in ResourceClasses,
          c \in 0..MaxConns : Resourcelist(q, cls, c)
    \/ \E self \in Handles, other \in Others : Eq(self, other)
    \/ \E self \in Handles, other \in Others : Ne(self, other)
    \/ \E wrapped \in WrappedResults : OneReturnValue(wrapped)

SpecRes == InitOn("linux") /\ [][NextRes]_vars

TypeOK ==
    /\ Len(conns) <= MaxConns
    /\ default_connection \in 0..Len(conns)
    /\ last_connection \in 0..Len(conns)

(* ------------------------------- claims ------------------------------- *)
\* the operations that run nsdchat_call
CallOps == {"nsdchat_call", "exec_nsdchat", "test"}

\* the outcome r is that of a call whose subprocess ended in time
EndedInTime(r) ==
    /\ r.op \in CallOps
    /\ r.self # NoConn
    /\ r.proc.duration <= (IF r.op = "test" THEN 5 ELSE 10)

\* ... and did not end with a non-zero status and empty stdout
CompletedSuccessfully(r) ==
    /\ EndedInTime(r)
    /\ ~(r.proc.rc # 0 /\ Strip(r.proc.out) = <<>>)

\* C1: when the external process exits with a non-zero status and empty
\* stdout, nsdchat_call returns None and has run geterror during the call
C1_SoftFailureReturnsNone ==
    (/\ result.op = "nsdchat_call"
     /\ EndedInTime(result)
     /\ result.proc.rc # 0
     /\ Strip(result.proc.out) = <<>>)
        => /\ result.kind = "return"
           /\ result.value = PyNone
           /\ \E i \in 1..Len(result.spawned) :
                  result.spawned[i][Len(result.spawned[i])] = "geterror"

\* C2: a call whose subprocess does not finish within the timeout raises
\* TimeoutExpired to the caller of nsdchat_call, exec_nsdchat and test; it
\* never returns a value
C2_TimeoutRaises ==
    (/\ result.op \in CallOps
     /\ result.proc.duration > (IF result.op = "test" THEN 5 ELSE 10))
        => /\ result.kind = "raise"
           /\ result.value = PyExc("TimeoutExpired")

C2_Witness ==
    /\ result.op = "test"
    /\ result.proc.duration > 5
    /\ result.kind = "raise"
    /\ result.value = PyExc("TimeoutExpired")

\* C3: Connection.get returns last_connection when prefer_last_connection
\* is set and a last-used connection exists, otherwise default_connection
\* when one exists, otherwise it raises
C3_AmbientResolution ==
    result.op = "get"
        => IF prefer_last_connection /\ last_connection # NoConn
           THEN result.kind = "return" /\ result.self = last_connection
           ELSE IF default_connection # NoConn
           THEN result.kind = "return" /\ result.self = default_connection
           ELSE result.kind = "raise"

C3_Witness ==
    /\ result.op = "get"
    /\ prefer_last_connection
    /\ last_connection # NoConn
    /\ last_connection # default_connection
    /\ result.kind = "return"
    /\ result.self = last_connection

\* C4: with prefer_last_connection set, once a call has succeeded on a
\* connection, ambient resolution keeps returning that connection until a
\* call on a different connection succeeds
C4_PreferLastSticky ==
    [][(/\ prefer_last_connection
        /\ prefer_last_connection'
        /\ last_connection # NoConn
        /\ Connection_get' # Connection_get)
           => /\ CompletedSuccessfully(result')
              /\ result'.self = Connection_get']_vars

\* C5: last_connection is the connection of the most recent call that
\* completed successfully: a call that times out, or ends with a non-zero
\* status and empty stdout, leaves it unchanged
C5_LastIsLastSuccess ==
    [][result'.op \in CallOps
           => last_connection' =
                  IF CompletedSuccessfully(result') THEN result'.self
                  ELSE last_connection]_vars

\* C6: default_connection is the first Connection ever constructed, after
\* any later constructions and calls, and with prefer_last_connection False
\* ambient resolution returns it
C6_DefaultIsFirst ==
    /\ default_connection = (IF Len(conns) = 0 THEN NoConn ELSE 1)
    /\ (result.op = "get" /\ ~prefer_last_connection /\ Len(conns) > 0)
           => result.kind = "return" /\ result.self = 1

C6_Witness ==
    /\ Len(conns) >= 2
    /\ last_connection = 2
    /\ ~prefer_last_connection
    /\ result.op = "get"
    /\ result.self = 1
    /\ default_connection = 1

\* the connection string the attributes of connection object c spell now
FreshString(c) ==
    PyStr("awsock:/" \o c.p5_user.val \o ":" \o c.p5_pass.val \o ":"
              \o c.session_id.val \o "@" \o c.p5_ip.val \o ":"
              \o ToString(c.p5_port_nr.val + 1001))

\* C7: once getConnectionString has computed the connection string, the
\* cached string never changes and every later call returns it, whatever is
\* assigned to the attributes afterwards
C7_ConnectionStringCached ==
    [][\A c \in ConnIds :
           conns[c].connection_string # PyNone
               => /\ conns'[c].connection_string = conns[c].connection_string
                  /\ (result'.op = "getConnectionString" /\ result'.self = c)
                         => result'.value = conns[c].connection_string]_vars

C7_Witness ==
    /\ result.op = "getConnectionString"
    /\ result.value = conns[result.self].connection_string
    /\ result.value # FreshString(conns[result.self])

\* C8: a Connection constructed with a caller-supplied sessionid has exactly
\* that value as its session id
C8_SuppliedSessionIdUsed ==
    (result.op = "Connection" /\ result.args.sessionid # PyNone)
        => conns[result.self].session_id = result.args.sessionid

\* C9: a Connection constructed without a session id gets a session id that
\* differs from that of every Connection constructed before it
C9_SessionIdsDistinct ==
    [][(Len(conns') = Len(conns) + 1 /\ result'.args.sessionid = PyNone)
           => \A i \in ConnIds :
                  conns'[Len(conns')].session_id # conns[i].session_id]_vars

\* C10: the string getConnectionString computes is
\* awsock:/<user>:<password>:<sessionId>@<host>:<base port + 1001>
C10_ConnectionStringShape ==
    [][\A c \in ConnIds :
           (/\ conns[c].connection_string = PyNone
            /\ conns'[c].connection_string # PyNone)
               => /\ conns'[c].connection_string = FreshString(conns[c])
                  /\ result'.value = FreshString(conns[c])]_vars

C10_Witness ==
    /\ result.op = "getConnectionString"
    /\ result.value =
           PyStr("awsock:/bob:password:awp5_sha224(0)@127.0.0.1:9001")

\* the scalars of a nested list, depth first and left to right
RECURSIVE LeavesOf(_)
LeavesOf(v) ==
    IF v.type # "list" THEN <<v>>
    ELSE IF v.val = <<>> THEN <<>>
    ELSE LeavesOf(Head(v.val)) \o LeavesOf(PyList(Tail(v.val)))

IsFalsyScalar(v) == v = PyNone \/ v = PyStr("") \/ v = PyInt(0)

\* the text of a truthy scalar
TextOf(v) == IF v.type = "int" THEN ToString(v.val) ELSE v.val

\* C11: strings(input) is the depth-first, left-to-right sequence of the
\* string forms of the truthy non-list leaves of the input; falsy entries
\* are omitted at every nesting level, so no output entry is empty
C11_StringsFlattens ==
    result.op = "strings"
        => LET kept == SelectSeq(LeavesOf(result.args),
                                 LAMBDA v : ~IsFalsyScalar(v))
               out == result.value.val
           IN  /\ Len(out) = Len(kept)
               /\ \A i \in 1..Len(out) : out[i] = TextOf(kept[i])
               /\ \A i \in 1..Len(out) : out[i] # ""

C11_Witness ==
    /\ result.op = "strings"
    /\ result.args =
           PyList(<<PyInt(5), PyList(<<PyNone, PyList(<<PyStr("a"),
                                                       PyInt(0)>>)>>)>>)
    /\ result.value = PyList(<<"5", "a">>)

\* where token i starts in the joined text, counting from 0
RECURSIVE StartOf(_, _)
StartOf(toks, i) ==
    IF i = 1 THEN 0 ELSE StartOf(toks, i - 1) + Len(toks[i - 1]) + 1

\* text is the tokens in order with exactly one space between neighbours
IsSpaceJoined(text, toks) ==
    LET n == Len(toks)
    IN  /\ Len(text) = StartOf(toks, n) + Len(toks[n])
        /\ \A i \in 1..n :
               SubSeq(text, StartOf(toks, i) + 1,
                      StartOf(toks, i) + Len(toks[i])) = toks[i]
        /\ \A i \in 2..n : text[StartOf(toks, i)] = " "

\* C14: singlevalue(tokens) is "" for no token, the sole token for one
\* token, and the tokens joined by single spaces for more than one
C14_SinglevalueCollapses ==
    result.op = "singlevalue"
        => LET toks == result.args
               text == result.value.val
           IN  /\ result.kind = "return"
               /\ result.value.type = "str"
               /\ Len(toks) = 0 => text = <<>>
               /\ Len(toks) = 1 => text = toks[1]
               /\ Len(toks) > 1 => IsSpaceJoined(text, toks)

C14_Witness ==
    /\ result.op = "singlevalue"
    /\ result.args = <<<<"a">>, <<>>, <<"b", "c">>>>
    /\ result.value = PyStr(<<"a", " ", " ", "b", "c">>)

\* the list holds plain strings only
AllStrings(list) == \A i \in 1..Len(list.val) : list.val[i].type = "str"

\* C12: for a list of plain string tokens a wrapped call returns what
\* singlevalue returns for that list: "" for the empty list, the sole token
\* for one token, the space-joined string for more
C12_OneReturnValueLikeSinglevalue ==
    (result.op = "onereturnvalue" /\ result.args.type = "list"
         /\ AllStrings(result.args))
        => PyEq(result.value,
                PyStr(singlevalue([i \in 1..Len(result.args.val) |->
                                       result.args.val[i].val])))

\* C13 as stated: a list that holds an element that is not a plain string
\* is returned unmodified, whatever its length
C13_ObjectListsUnmodified ==
    (result.op = "onereturnvalue" /\ result.args.type = "list"
         /\ ~AllStrings(result.args))
        => result.value.type = "list" /\ result.value = result.args

\* C13 amended: a list of two or more elements that holds an element that
\* is not a plain string is returned unmodified; a list of one such element
\* yields that element
C13_ObjectListsUnmodifiedFromTwo ==
    (result.op = "onereturnvalue" /\ result.args.type = "list"
         /\ ~AllStrings(result.args))
        => IF Len(result.args.val) >= 2
           THEN result.value.type = "list" /\ result.value = result.args
           ELSE /\ result.value.type = "P5Resource"
                /\ result.value = result.args.val[1]

C13_Witness ==
    /\ result.op = "onereturnvalue"
    /\ result.args = PyList(<<Handle("Job", r1, 1), Handle("Job", r2, 1)>>)
    /\ result.value = result.args

IsSentinel(tok) == tok = empty_token \/ tok = unknown_token

\* C15: resourcelist(tokens, T, conn) returns, in token order, one handle of
\* type T bound to conn (to the ambient connection when conn is not given)
\* per token that is neither "<empty>" nor "unknown"
C15_ResourcelistHandles ==
    result.op = "resourcelist"
        => LET kept == SelectSeq(result.args[1], LAMBDA t : ~IsSentinel(t))
               T == result.args[2]
               conn == result.args[3]
               bound == IF conn # NoConn THEN conn ELSE Connection_get
           IN  IF kept # <<>> /\ bound = NoConn
               THEN result.kind = "raise"
               ELSE /\ result.kind = "return"
                    /\ result.value.type = "list"
                    /\ Len(result.value.val) = Len(kept)
                    /\ \A i \in 1..Len(kept) :
                           /\ result.value.val[i].cls = T
                           /\ result.value.val[i].name = kept[i]
                           /\ result.value.val[i].p5_connection = bound

C15_Witness ==
    /\ result.op = "resourcelist"
    /\ result.args = <<<<r2, unknown_token, r1>>, "Client", 2>>
    /\ result.value = PyList(<<Handle("Client", r2, 2),
                               Handle("Client", r1, 2)>>)

\* C16 as stated: two handles are equal exactly when their names are equal
\* and their connections are the same; a handle equals a string exactly
\* when the string is its name
C16_EqByNameAndConnection ==
    result.op = "__eq__"
        => LET self == result.args[1]
               other == result.args[2]
           IN  /\ other.type = "P5Resource"
                      => (result.value.val
                              <=> /\ self.name = other.name
                                  /\ self.p5_connection = other.p5_connection)
               /\ other.type = "str"
                      => (result.value.val <=> self.name = other.val)

\* C16 amended: two handles of the same resource type are equal exactly
\* when their names are equal and their connections are the same, handles
\* of different resource types are never equal; a handle equals a string
\* exactly when the string is its name
C16_EqWithinOneClass ==
    result.op = "__eq__"
        => LET self == result.args[1]
               other == result.args[2]
           IN  /\ (other.type = "P5Resource" /\ other.cls = self.cls)
                      => (result.value.val
                              <=> /\ self.name = other.name
                                  /\ self.p5_connection = other.p5_connection)
               /\ (other.type = "P5Resource" /\ other.cls # self.cls)
                      => ~result.value.val
               /\ other.type = "str"
                      => (result.value.val <=> self.name = other.val)

C16_Witness ==
    /\ result.op = "__eq__"
    /\ result.args = <<Handle("Job", r1, 1), Handle("Job", r1, 2)>>
    /\ result.value = PyBool(FALSE)

\* the operations that resolve the ambient connection
AmbientOps == {"get", "exec_nsdchat", "P5Resource"}

\* C17: while no Connection has been constructed, Connection.get(),
\* exec_nsdchat without a connection and the construction of a handle
\* without a connection raise AssertionError, spawn no subprocess and leave
\* the default, the last and the preference as they were
C17_NoConnectionFailsFast ==
    [][(conns = <<>> /\ result'.op \in AmbientOps)
           => /\ result'.kind = "raise"
              /\ result'.value = PyExc("AssertionError")
              /\ result'.spawned = <<>>
              /\ UNCHANGED <<conns, default_connection, last_connection,
                             prefer_last_connection>>
              /\ default_connection' = NoConn
              /\ last_connection' = NoConn]_vars

C17_Witness ==
    /\ conns = <<>>
    /\ prefer_last_connection
    /\ result.op = "exec_nsdchat"
    /\ result.kind = "raise"
    /\ result.spawned = <<>>

\* C20: when the external process exits with a non-zero status but writes
\* non-empty stdout, nsdchat_call returns the token list parsed from stdout
\* (the stripped text cut at its single spaces), spawns nothing but the
\* command itself, so geterror is not run, and the connection is the last
\* used one
C20_NonZeroWithOutputSucceeds ==
    (/\ result.op \in {"nsdchat_call", "exec_nsdchat"}
     /\ EndedInTime(result)
     /\ result.proc.rc # 0
     /\ result.proc.out # <<>>)
        => /\ result.kind = "return"
           /\ result.value.type = "list"
           /\ \A i \in 1..Len(result.value.val) :
                  \A j \in 1..Len(result.value.val[i]) :
                      result.value.val[i][j] # " "
           /\ IsSpaceJoined(Strip(result.proc.out), result.value.val)
           /\ Len(result.spawned) = 1
           /\ result.spawned[1][Len(result.spawned[1])] # "geterror"
           /\ last_connection = result.self

C20_Witness ==
    /\ result.op = "nsdchat_call"
    /\ result.proc = [duration |-> 7, rc |-> 1, out |-> <<"a">>]
    /\ result.value = PyList(<<<<"a">>>>)
    /\ result.self = 2
    /\ last_connection = 2

\* the number a sequence of decimal digits denotes
RECURSIVE NumberOf(_)
NumberOf(digits) ==
    IF digits = <<>> THEN 0
    ELSE 10 * NumberOf(SubSeq(digits, 1, Len(digits) - 1))
             + (Ord(digits[Len(digits)]) - Ord("0"))

\* the components of a dotted version number, as numbers
RECURSIVE Components(_, _)
Components(text, cur) ==
    IF text = <<>> THEN <<NumberOf(cur)>>
    ELSE IF Head(text) = "."
    THEN <<NumberOf(cur)>> \o Components(Tail(text), <<>>)
    ELSE Components(Tail(text), Append(cur, Head(text)))

\* version a is at or above version b, component by component
RECURSIVE AtLeast(_, _)
AtLeast(a, b) ==
    IF b = <<>> THEN TRUE
    ELSE IF a = <<>> THEN FALSE
    ELSE IF Head(a) # Head(b) THEN Head(a) > Head(b)
    ELSE AtLeast(Tail(a), Tail(b))

\* C19: test(minVersion) returns True exactly when the version the server
\* reports is at or above minVersion under numeric component-wise
\* comparison of dotted version numbers, and False when it is lower
C19_TestComparesNumerically ==
    (result.op = "test" /\ result.kind = "return")
        => result.value =
               PyBool(AtLeast(Components(Strip(result.proc.out), <<>>),
                              Components(result.args.val, <<>>)))

\* the connection the caller of thread t's call meant: the one passed, or
\* the default connection for a call without one
Intended(t) ==
    IF threads[t].explicit # NoConn THEN threads[t].explicit
    ELSE default_connection

\* the "-s" argument of an argument vector
UriOf(argv) == argv[3]

\* C18: a call that passes a connection, or that is made while
\* prefer_last_connection is False, runs its subprocess with the URI of the
\* connection its caller meant, however the calls of the threads interleave
C18_NoCrossTalk ==
    \A t \in 1..NThreads :
        (/\ threads[t].pc = "running"
         /\ threads[t].explicit # NoConn \/ ~threads[t].pref)
            => /\ threads[t].target = Intended(t)
               /\ UriOf(threads[t].argv) = FreshString(conns[Intended(t)]).val

\* an ambient call and an explicit one on another host run side by side
\* after that other connection became the last used one
C18_Witness ==
    /\ Len(conns) >= 2
    /\ FreshString(conns[1]) # FreshString(conns[2])
    /\ last_connection = 2
    /\ ~prefer_last_connection
    /\ threads[1].pc = "running" /\ threads[1].explicit = NoConn
    /\ threads[2].pc = "running" /\ threads[2].explicit = 2
    /\ UriOf(threads[1].argv) = FreshString(conns[1]).val
    /\ UriOf(threads[2].argv) = FreshString(conns[2]).val

\* C21: when the stdout of the external process is empty after stripping,
\* nsdchat_call returns None or a list of no tokens, so that resourcelist
\* makes no handle of it; it never returns a list that holds an empty token
C21_EmptyOutputYieldsNoToken ==
    (/\ result.op = "nsdchat_call"
     /\ EndedInTime(result)
     /\ Strip(result.proc.out) = <<>>)
        => \/ result.value = PyNone
           \/ /\ result.value.type = "list"
              /\ Len(result.value.val) = 0
              /\ resourcelist(result.value.val, "Job", result.self) = <<>>

\* C22: geterror, whenever it is called in the life of a connection, runs
\* the geterror command with the connection string getConnectionString
\* returns for that connection
C22_GeterrorUsesConnectionString ==
    result.op = "geterror"
        => /\ result.kind = "return"
           /\ Len(result.spawned) = 1
           /\ result.spawned[1] =
                  <<conns[result.self].nsdchat, "-s",
                    FreshString(conns[result.self]).val, "-c", "geterror">>

\* C23: the control port in the connection string is the base port the
\* connection was constructed with (here that of the configuration) plus
\* 1001, whatever is assigned to the base port before the string is first
\* computed
C23_ControlPortFixedAtConstruction ==
    [][(/\ result'.op = "getConnectionString"
        /\ result'.self \in ConnIds
        /\ conns[result'.self].connection_string = PyNone)
           => result'.value =
                  FreshString([conns[result'.self] EXCEPT
                                  !.p5_port_nr = config_p5_port_nr])]_vars

\* the file <install path>/bin/<nsdchat binary> of connection object c
NsdchatBinary(c) ==
    IF platform = "win32" THEN c.p5_path.val \o "\\bin\\nsdchat.exe"
    ELSE c.p5_path.val \o "/bin/nsdchat"

\* the string forms of the entries of cmd that are given, lists opened up
Marshaled(cmd) ==
    LET kept == SelectSeq(LeavesOf(cmd), LAMBDA v : ~IsFalsyScalar(v))
    IN  [i \in 1..Len(kept) |-> TextOf(kept[i])]

\* C24: an nsdchat_call spawns one main subprocess, with the argument
\* vector [<install path>/bin/<nsdchat binary>, -s, <connection URI>, -c]
\* followed by strings(cmd); anything it spawns besides is geterror
C24_ArgumentVector ==
    result.op = "nsdchat_call"
        => LET c == conns[result.self]
           IN  /\ Len(result.spawned) >= 1
               /\ result.spawned[1] =
                      <<NsdchatBinary(c), "-s", FreshString(c).val, "-c">>
                          \o Marshaled(result.args)
               /\ \A j \in 2..Len(result.spawned) :
                      result.spawned[j] =
                          <<NsdchatBinary(c), "-s", FreshString(c).val, "-c",
                            "geterror">>

C24_Witness ==
    /\ platform = "win32"
    /\ result.op = "nsdchat_call"
    /\ result.self = 2
    /\ conns[2].p5_ip = PyStr("10.0.0.5")
    /\ result.spawned =
           <<<<"C:\\Program Files\\ARCHIWARE\\Data_Lifecycle_Management_Suite\\bin\\nsdchat.exe",
               "-s",
               "awsock:/Administrator:password:awp5_sha224(0)@10.0.0.5:9001",
               "-c", "Client", "a", "5", "b">>>>

\* the fields ConnectionBase keeps
BaseFields == {"p5_user", "p5_pass", "p5_ip", "p5_port_nr", "p5_path"}

\* C25: construction keeps every field value the caller supplied, falsy
\* ones such as an empty password or port 0 included, and takes the
\* configuration default for the fields left unset only
C25_SuppliedFieldsKept ==
    result.op = "Connection"
        => \A f \in BaseFields :
               result.args[f] # PyNone
                   => conns[result.self][f] = result.args[f]

\* C28: when the wrapped function returns None, the wrapped call returns
\* None: it does not raise and does not turn it into a string or a list
C28_NonePassesThrough ==
    (result.op = "onereturnvalue" /\ result.args.type = "NoneType")
        => result.kind = "return" /\ result.value.type = "NoneType"

C28_Witness ==
    /\ result.op = "onereturnvalue"
    /\ result.args = PyNone
    /\ result.kind = "return"
    /\ result.value = PyNone

\* C29: handle != x is the negation of handle == x for every x; a comparand
\* that is neither a handle of the same type nor a string yields a boolean
C29_NeNegatesEq ==
    result.op = "__ne__"
        => /\ result.kind = "return"
           /\ result.value.type = "bool"
           /\ result.value.val
                  = ~P5Resource_eq(result.args[1], result.args[2])

\* C30: every method of a Job handle that takes no argument runs the
\* command [Job, <handle name>, <method name>] on the connection the handle
\* is bound to and returns the reply collapsed to one value; none of them
\* fails before it has issued the command
C30_JobMethodsIssueCommand ==
    result.op = "Job.method"
        => LET self == result.args[1]
               c == conns[self.p5_connection]
               replied == Split(Strip(result.proc.out))
           IN  /\ Len(result.spawned) >= 1
               /\ result.spawned[1] =
                      <<NsdchatBinary(c), "-s", FreshString(c).val, "-c",
                        "Job", self.name, result.args[2]>>
               /\ result.proc.duration <= 10
                      => /\ result.kind = "return"
                         /\ result.value = PyStr(singlevalue(replied))

\* the handles names returned are all bound to the connection the command
\* ran on
BoundWhereExecuted(r) ==
    \A i \in 1..Len(r.value.val) : r.value.val[i].p5_connection = r.self

\* C27 as stated: the handles of an object-list call made without a
\* connection are bound to the connection the command ran on, in every
\* interleaving and for both values of prefer_last_connection
C27_HandlesBoundWhereExecuted ==
    (result.op = "names" /\ result.args.p5_connection = NoConn)
        => BoundWhereExecuted(result)

\* C27 amended: ... provided prefer_last_connection is False when the call
\* settles its connection and when it constructs the handles
C27_HandlesBoundWhereExecutedNoPrefer ==
    (/\ result.op = "names"
     /\ result.args.p5_connection = NoConn
     /\ ~result.args.pref_before
     /\ ~result.args.pref_after)
        => /\ BoundWhereExecuted(result)
           /\ result.self = default_connection

\* handles made while another connection is the last used one
C27_Witness ==
    /\ result.op = "names"
    /\ result.args.p5_connection = NoConn
    /\ ~result.args.pref_before
    /\ ~result.args.pref_after
    /\ last_connection # NoConn
    /\ last_connection # result.self
    /\ result.value = PyList(<<Handle("Job", <<"a">>, result.self)>>)

\* C26: every nsdchat_call a thread is waiting in eventually returns or
\* raises, whether or not its subprocess ever exits
C26_CallsEnd ==
    \A t \in 1..NThreads :
        (threads[t].pc = "running") ~> (threads[t].pc = "idle")

\* two calls wait on their subprocesses at once after an earlier call ended
C26_Witness ==
    /\ threads[1].pc = "running"
    /\ threads[2].pc = "running"
    /\ last_connection # NoConn

====
